---- MODULE Spec2Model ----
(***************************************************************************)
(* The tool-augmented reasoning loop of the data analyst agent            *)
(* (src/src/agent.py): DataAnalystAgent.run drives a two-node graph       *)
(* ("agent" = Reasoning, "tools" = ToolExecution) compiled with an        *)
(* in-memory checkpointer keyed by thread identifier.                     *)
(*                                                                         *)
(* The graph runtime is a library; what the model takes from its          *)
(* documented behaviour is stated where it is used:                       *)
(*   - the "messages" channel is reduced with add_messages (append),      *)
(*     every other channel keeps the last value written;                  *)
(*   - the checkpointer saves the channel values of a thread after the    *)
(*     input is applied and after every completed superstep; a superstep  *)
(*     that raises saves nothing;                                         *)
(*   - a run given a new input always enters at the entry point;          *)
(*   - the prebuilt tool node runs the tool calls of the newest assistant *)
(*     message in a thread pool ("run in parallel"), returns one tool     *)
(*     message per call in call order, and turns an unknown tool name or  *)
(*     invalid arguments into an error tool message.                      *)
(* Runs are explored up to MaxCycles tool cycles each.                    *)
(*                                                                         *)
(* The code executor behind the execute_pandas_code tool                  *)
(* (src/src/tools.py, PandasCodeExecutor) is modelled on its own, in      *)
(* ExecSpec: calls of execute_code on the executors of two callers, with  *)
(* the process-wide output streams they redirect.                         *)
(***************************************************************************)
EXTENDS Naturals, Sequences, FiniteSets, TLC

VARIABLES
    checkpoints,   \* MemorySaver: thread id -> persisted channel values
    pc,            \* position of the (single, blocking) run call
    cur,           \* thread id of the run in progress
    initial_state, \* run(): the input state built for this call
    work,          \* channel values of the run in progress
    tstat,         \* tool node: per tool call "pending" | "running" | "done"
    cycles,        \* completed ToolExecution supersteps of this run
    events,        \* run(): number of stream events collected
    result,        \* what the last run call returned
    runs,          \* number of run calls made so far
    fresh,         \* source of message / tool-call identifiers
    invoked,       \* planner invocations made so far, over all runs
    log,           \* observation: thread id -> every message appended, in order
    h,             \* observation: history of the run in progress
    executors,     \* PandasCodeExecutor objects, one per thread of callers
    heap,          \* the objects the executors' names are bound to
    sys_stdout,    \* sys.stdout of the process: what print writes to
    sys_stderr,    \* sys.stderr of the process
    terminal,      \* what has been written to the real process streams
    snippets,      \* execute_code calls made so far
    io,            \* a tool or a constructor called on its own: call and return
    session        \* interactive_mode: the locals of the loop and the session store

loopvars == <<checkpoints, pc, cur, initial_state, work, tstat, cycles, events,
              result, runs, fresh, invoked, log, h>>

execvars == <<executors, heap, sys_stdout, sys_stderr, terminal, snippets>>

vars == <<checkpoints, pc, cur, initial_state, work, tstat, cycles, events,
          result, runs, fresh, invoked, log, h,
          executors, heap, sys_stdout, sys_stderr, terminal, snippets, io,
          session>>

----------------------------------------------------------------------------
(* Bounds of the model *)

\* run calls made in one behaviour
MaxRuns == 2
\* ToolExecution supersteps explored in one run
MaxCycles == 2
\* planner invocations made in one behaviour
MaxPlannerCalls == 3

\* Config.MAX_ITERATIONS
MAX_ITERATIONS == 10
\* execute_code calls made in one behaviour, over all executors
MaxSnippets == 2
\* commands read in one interactive session
MaxCommands == 5

----------------------------------------------------------------------------
(* Small input sets *)

None == "None"
Threads == {"t1", "t2"}
Inputs == {"q1"}
Locators == {None, "data.csv"}
\* files that pd.read_csv can load
Files == {"data.csv"}
\* texts the planner may answer with
Contents == {"a1", "a2"}
\* faults the planner invocation may raise
Faults == {"planner unreachable", "request rejected"}

ToolNames == {"execute_pandas_code", "get_dataframe_info", "suggest_analysis_steps"}

\* The (tool name, arguments) pairs the planner chooses from.  wellformed
\* is FALSE when the arguments do not validate against the tool's schema.
Requests ==
    { [name |-> "execute_pandas_code", code |-> "print", path |-> "data.csv",
       wellformed |-> TRUE],
      [name |-> "execute_pandas_code", code |-> "raise", path |-> "data.csv",
       wellformed |-> TRUE],
      [name |-> "get_dataframe_info", code |-> "", path |-> "missing.csv",
       wellformed |-> TRUE],
      [name |-> "suggest_analysis_steps", code |-> "", path |-> "data.csv",
       wellformed |-> FALSE] }

Request(name, code) == CHOOSE r \in Requests : r.name = name /\ r.code = code

\* The lists of tool requests one planner reply may carry: each request
\* alone, and three pairs.
CallMenus ==
    { <<r>> : r \in Requests }
    \cup { <<Request("execute_pandas_code", "print"), Request("execute_pandas_code", "raise")>>,
           <<Request("execute_pandas_code", "raise"), Request("execute_pandas_code", "print")>>,
           <<Request("get_dataframe_info", ""), Request("suggest_analysis_steps", "")>> }

----------------------------------------------------------------------------
(* Helpers *)

Last(s) == s[Len(s)]

IsPrefix(s, t) == Len(s) <= Len(t) /\ SubSeq(t, 1, Len(s)) = s

\* Python truthiness of an optional string
Truthy(x) == x # None /\ x # ""

----------------------------------------------------------------------------
(* Messages *)

HumanMessage(id, content) ==
    [id |-> id, role |-> "user", content |-> content, tool_calls |-> <<>>,
     tool_call_id |-> 0, status |-> "success"]

AIMessage(id, content, calls) ==
    [id |-> id, role |-> "assistant", content |-> content, tool_calls |-> calls,
     tool_call_id |-> 0, status |-> "success"]

ToolMessage(id, content, call_id, status) ==
    [id |-> id, role |-> "tool-result", content |-> content, tool_calls |-> <<>>,
     tool_call_id |-> call_id, status |-> status]

\* The planner's tool calls: request k of the reply gets identifier base + k.
ToolCalls(reqs, base) ==
    [k \in 1..Len(reqs) |-> [id |-> base + k, name |-> reqs[k].name, args |-> reqs[k]]]

----------------------------------------------------------------------------
(* Tools (src/src/tools.py), by what they return *)

\* variant: the success flag is set whether or not the snippet raised
execute_code_flag_outside_try(code) ==
    [success |-> TRUE, error |-> "", output |-> "printed"]

\* PandasCodeExecutor.execute_code on a loaded table
execute_code(code) ==
    IF code = "raise"
    THEN [success |-> FALSE, error |-> "fault", output |-> ""]
    ELSE [success |-> TRUE, error |-> "", output |-> "printed"]

execute_pandas_code(args) ==
    IF ~Truthy(args.path)
    THEN <<"success=False", "No CSV file specified. Please load a CSV file first.">>
    ELSE IF args.path \notin Files
    THEN <<"success=False", "Failed to load CSV file">>
    ELSE LET r == execute_code(args.code) IN
         IF r.success
         THEN <<"success=True", r.error, "Code executed successfully">>
         ELSE <<"success=False", r.error, "Code execution failed">>

get_dataframe_info(args) ==
    IF ~Truthy(args.path)
    THEN <<"error", "No CSV file specified">>
    ELSE IF args.path \notin Files
    THEN <<"success=False", "Failed to get dataframe info">>
    ELSE <<"success=True", "", "Dataframe info retrieved">>

suggest_analysis_steps(args) ==
    IF ~Truthy(args.path)
    THEN <<"error", "No CSV file specified">>
    ELSE IF args.path \notin Files
    THEN <<"error", "Failed to load CSV file">>
    ELSE <<"success=True", "", "Analysis steps suggested based on data and question">>

\* The tool node's handling of one tool call: the tool message it produces.
\* A fault of the dispatch itself (unknown tool, arguments that do not
\* validate) becomes an error tool message; a tool's own failures come back
\* as its structured result.
RunOne(call, id) ==
    IF call.name \notin ToolNames
    THEN ToolMessage(id, <<"Error: not a valid tool">>, call.id, "error")
    ELSE IF ~call.args.wellformed
    THEN ToolMessage(id, <<"Error: invalid arguments", "Please fix your mistakes.">>,
                     call.id, "error")
    ELSE IF call.name = "execute_pandas_code"
    THEN ToolMessage(id, execute_pandas_code(call.args), call.id, "success")
    ELSE IF call.name = "get_dataframe_info"
    THEN ToolMessage(id, get_dataframe_info(call.args), call.id, "success")
    ELSE ToolMessage(id, suggest_analysis_steps(call.args), call.id, "success")

\* a tool message reports a failure
ReportsFailure(m) ==
    m.role = "tool-result" /\ (m.status = "error" \/ m.content[1] # "success=True")

----------------------------------------------------------------------------
(* Conversation state (src/src/state.py) *)

AgentState(messages, current_task, csv_file_path, error, csv_loaded) ==
    [messages |-> messages, current_task |-> current_task,
     csv_file_path |-> csv_file_path, csv_info |-> <<>>,
     analysis_results |-> <<>>, error |-> error, generated_code |-> <<>>,
     csv_loaded |-> csv_loaded]

NoState == AgentState(<<>>, <<>>, None, None, FALSE)

\* a text held as its pieces is empty (falsy)
Falsy(text) == \A i \in 1..Len(text) : text[i] = ""

\* variant: the messages channel has no reducer and keeps the last write
add_messages_no_reducer(left, right) == right

\* add_messages: the reducer of the messages channel
add_messages(left, right) == left \o right

\* variant: the user message is never rewritten
UserContent_no_rewrite(user_input, csv_file_path) == <<user_input>>

\* run(): the content of the user message
UserContent(user_input, csv_file_path) ==
    IF Truthy(csv_file_path)
    THEN <<"I have a CSV file at ", csv_file_path, ". ", user_input>>
    ELSE <<user_input>>

\* variant: the input carries the question twice, rewritten and as given
InitialState_two_messages(user_input, csv_file_path, id) ==
    AgentState(<<HumanMessage(id, UserContent(user_input, csv_file_path)),
                 HumanMessage(id, <<user_input>>)>>,
               <<user_input>>, csv_file_path, None, Truthy(csv_file_path))

\* run(): the input state of a call
InitialState(user_input, csv_file_path, id) ==
    AgentState(<<HumanMessage(id, UserContent(user_input, csv_file_path))>>,
               <<user_input>>, csv_file_path, None, Truthy(csv_file_path))

\* variant: the run starts from its input alone, not from the thread's checkpoint
ApplyInput_no_checkpoint(t, input) == input

\* variant: an input without a locator leaves the thread's dataset in place
ApplyInput_keeps_locator(t, input) ==
    IF t \in DOMAIN checkpoints
    THEN [input EXCEPT
            !.messages = add_messages(checkpoints[t].messages, input.messages),
            !.csv_file_path = IF Truthy(input.csv_file_path)
                              THEN input.csv_file_path
                              ELSE checkpoints[t].csv_file_path,
            !.csv_loaded = IF Truthy(input.csv_file_path)
                           THEN input.csv_loaded
                           ELSE checkpoints[t].csv_loaded]
    ELSE input

\* The channel values after the input of a run is applied to what the
\* checkpointer holds for the thread: messages are reduced, every other
\* channel takes the input's value.
ApplyInput(t, input) ==
    IF t \in DOMAIN checkpoints
    THEN [input EXCEPT !.messages = add_messages(checkpoints[t].messages, input.messages)]
    ELSE input

\* MemorySaver.put
Save(t, values) ==
    [x \in (DOMAIN checkpoints) \cup {t} |-> IF x = t THEN values ELSE checkpoints[x]]

\* variant: the accessor answers from the state the last run returned
get_conversation_history_last_result(t) == result.state.messages

\* graph.get_state(config).values.get("messages", [])
get_conversation_history(t) ==
    IF t \in DOMAIN checkpoints THEN checkpoints[t].messages ELSE <<>>

\* _agent_node: the system context given to the planner, the prompt
\* followed by the dataset section and the error section when the state
\* has them (csv_info is never filled, so no shape line is added)
SystemContext(state) ==
    <<"system prompt">>
    \o (IF state.csv_loaded /\ Truthy(state.csv_file_path)
        THEN <<"Current CSV file: ", state.csv_file_path>>
        ELSE <<>>)
    \o (IF Truthy(state.error)
        THEN <<"Previous error: ", state.error>>
        ELSE <<>>)

\* variant: the edge always leads to the tool node
should_continue_always(state) == "continue"

\* variant: the edge always ends the run
should_continue_never(state) == "end"

\* variant: the edge ends the run once the configured iteration limit is met
should_continue_max_iterations(state) ==
    LET last_message == Last(state.messages) IN
    IF last_message.role = "assistant" /\ Len(last_message.tool_calls) > 0
       /\ cycles < MAX_ITERATIONS
    THEN "continue"
    ELSE "end"

\* _should_continue
should_continue(state) ==
    LET last_message == Last(state.messages) IN
    IF last_message.role = "assistant" /\ Len(last_message.tool_calls) > 0
    THEN "continue"
    ELSE "end"

\* variant: the except branch returns an empty response
Failure_empty_response(text) ==
    [response |-> <<"">>, state |-> initial_state,
     events |-> 0, success |-> FALSE, error |-> text]

\* run(): the failure result built by the except branch
Failure(text) ==
    [response |-> <<"Error occurred: ", text>>, state |-> initial_state,
     events |-> 0, success |-> FALSE, error |-> text]

\* variant: the response is taken from the first message instead of the last
Success_first_message(final_state) ==
    [response |-> IF Len(final_state.messages) > 0
                     /\ final_state.messages[1].role = "assistant"
                  THEN final_state.messages[1].content
                  ELSE <<"">>,
     state |-> final_state, events |-> events, success |-> TRUE, error |-> None]

\* run(): the result built after the stream has ended
Success(final_state) ==
    [response |-> IF Len(final_state.messages) > 0
                     /\ Last(final_state.messages).role = "assistant"
                  THEN Last(final_state.messages).content
                  ELSE <<"">>,
     state |-> final_state, events |-> events, success |-> TRUE, error |-> None]

\* What is recorded about the run in progress: planner invocations and tool
\* dispatches made, the messages given to the planner at its latest
\* invocation, the thread's messages before the run, whether and with which
\* fault the planner aborted it, the role of the message the latest
\* continue-or-stop decision looked at, the state the run returned from, the
\* arguments the run was called with, and the latest answer of the history
\* accessor since the run returned.
NoHistory ==
    [planner_calls |-> 0, dispatches |-> 0, seen |-> <<>>, prior |-> <<>>,
     aborted |-> FALSE, fault |-> None, decided_on |-> "none",
     returned_from |-> "none", user_input |-> None, locator |-> None,
     asked |-> None, history |-> <<>>]

----------------------------------------------------------------------------
(* PandasCodeExecutor (src/src/tools.py), by what a call does to the        *)
(* executor, to the objects its names are bound to and to the process's     *)
(* output streams.  A table is an object holding a value; an in-place       *)
(* change alters the object, an assignment binds the name to another one.   *)

\* The snippets handed to execute_code, by what they do:
\*   print            prints and returns
\*   print_raise      prints, then raises with a message
\*   assert           raises an exception that carries no message
\*   malformed        does not compile
\*   reassign         binds df to a new, changed table
\*   mutate           changes the table bound to df in place
\*   mutate_original  changes the table bound to original_df in place
\*   mutate_raise     changes the table bound to df in place, then raises
\*   rebind           binds df to a value that is not a table
\*   warn             runs an operation that writes a warning to sys.stderr
\*   read_file        prints a file read with pd.read_csv
\*   write_file       changes the table bound to df in place and writes it
\*                    over the dataset with df.to_csv
\*   import           an import statement
Snippets ==
    {"print", "print_raise", "assert", "malformed", "reassign", "mutate",
     "mutate_original", "mutate_raise", "rebind", "warn", "read_file",
     "write_file", "import"}

\* execute_code: the names bound in safe_globals
safe_globals == {"pd", "np", "df", "original_df", "__builtins__"}

\* execute_code: the names bound in safe_globals['__builtins__']
builtins ==
    {"len", "str", "int", "float", "bool", "list", "dict", "set", "tuple",
     "range", "enumerate", "zip", "sum", "max", "min", "abs", "round", "print"}

\* the table held in the dataset file when the first caller loads it
LoadedTable == [kind |-> "table", value |-> 0]

\* the object that stands for the dataset file: what pd.read_csv loads
DatasetFile == 1

Table(v) == [kind |-> "table", value |-> v]
Scalar == [kind |-> "scalar", value |-> 0]

IsTable(hp, ref) == hp[ref].kind = "table"

\* an in-place change of the object at ref
Mutated(hp, ref) == [hp EXCEPT ![ref].value = @ + 1]

\* A stream target: the real stream of the process, or the capture buffer
\* that a call of an executor created.
RealStream == [executor |-> None, call |-> 0]
Buffer(e, n) == [executor |-> e, call |-> n]

\* execute_code: the result dictionary as first built (no table is ref 0)
NoResult ==
    [success |-> FALSE, output |-> <<>>, error |-> <<"">>, dataframe |-> 0]

\* An executor that has not been constructed.  Besides the attributes df
\* and original_df it records the table it was constructed from and the
\* locals of the call in progress.
\* Observed besides: the value of the caller's table at construction
\* (given), the values of the working and the original table at the entry
\* of the latest call (entry), the tables the calls have returned to the
\* caller (held), whether the caller has changed the latest of them
\* (touched), and the capabilities outside the namespace that the snippets
\* have exercised (reached).
NoExecutor ==
    [state |-> "absent", dataframe |-> 0, df |-> 0, original_df |-> 0,
     call |-> 0, code |-> None, old_stdout |-> RealStream,
     old_stderr |-> RealStream, stdout_capture |-> <<>>,
     stderr_capture |-> <<>>, raised |-> FALSE, message |-> "",
     result |-> NoResult,
     given |-> LoadedTable, entry |-> [df |-> LoadedTable, original_df |-> LoadedTable],
     held |-> {}, touched |-> FALSE, reached |-> {}]

\* exec(code, safe_globals): what running the snippet does, given the
\* objects bound to df and original_df: the objects afterwards, the binding
\* of df afterwards, what it printed, what it wrote to sys.stderr, and
\* whether it raised and with which message; and which capabilities
\* outside the namespace it exercised.  A name is found only if the
\* namespace binds it, an import only if the builtins hold __import__.
Effect(code, df, original_df, hp) ==
    LET quiet == [heap |-> hp, df |-> df, out |-> <<>>, err |-> <<>>,
                  raised |-> FALSE, message |-> "", reached |-> {}]
        not_a_table == [quiet EXCEPT !.raised = TRUE,
                                     !.message = "object has no such attribute"]
    IN CASE code = "print" -> [quiet EXCEPT !.out = <<"p">>]
         [] code = "print_raise" ->
                [quiet EXCEPT !.out = <<"p">>, !.raised = TRUE, !.message = "boom"]
         [] code = "assert" -> [quiet EXCEPT !.raised = TRUE, !.message = ""]
         [] code = "malformed" ->
                [quiet EXCEPT !.raised = TRUE, !.message = "invalid syntax"]
         [] code = "reassign" ->
                IF IsTable(hp, df)
                THEN [quiet EXCEPT !.heap = Append(hp, Table(hp[df].value + 1)),
                                   !.df = Len(hp) + 1]
                ELSE not_a_table
         [] code = "mutate" ->
                IF IsTable(hp, df) THEN [quiet EXCEPT !.heap = Mutated(hp, df)]
                ELSE not_a_table
         [] code = "mutate_original" ->
                [quiet EXCEPT !.heap = Mutated(hp, original_df)]
         [] code = "mutate_raise" ->
                IF IsTable(hp, df)
                THEN [quiet EXCEPT !.heap = Mutated(hp, df), !.raised = TRUE,
                                   !.message = "boom"]
                ELSE not_a_table
         [] code = "rebind" ->
                [quiet EXCEPT !.heap = Append(hp, Scalar), !.df = Len(hp) + 1]
         [] code = "read_file" ->
                IF "pd" \in safe_globals
                THEN [quiet EXCEPT !.out = <<"f">>, !.reached = {"filesystem"}]
                ELSE [quiet EXCEPT !.raised = TRUE, !.message = "name is not defined"]
         [] code = "write_file" ->
                IF IsTable(hp, df)
                THEN [quiet EXCEPT !.heap = [Mutated(hp, df) EXCEPT
                                                  ![DatasetFile] = Mutated(hp, df)[df]],
                                   !.reached = {"filesystem"}]
                ELSE not_a_table
         [] code = "import" ->
                IF "__import__" \in builtins
                THEN [quiet EXCEPT !.reached = {"import"}]
                ELSE [quiet EXCEPT !.raised = TRUE, !.message = "__import__ not found"]
         [] OTHER -> [quiet EXCEPT !.err = <<"w">>]

\* variant: the binding of df left by the snippet is not stored
StoredDf_keeps_old(x, eff) == x.df

\* execute_code: self.df after the snippet ran, the binding of df in the
\* namespace unless the snippet raised
StoredDf(x, eff) == IF eff.raised THEN x.df ELSE eff.df

\* variant: the result holds the executor's working table itself
ResultTable_live(hp, ref) == [heap |-> hp, ref |-> ref]

\* execute_code: self.df.copy(), the table put into the result
ResultTable(hp, ref) == [heap |-> Append(hp, hp[ref]), ref |-> Len(hp) + 1]

\* what each piece of text written carries: the text and the executor whose
\* snippet wrote it
Pieces(e, texts) == [i \in 1..Len(texts) |-> <<e, texts[i]>>]

\* The executors after pieces are written to a stream target: the capture
\* buffer of a call still in progress receives them; a buffer whose call
\* has returned is no longer read by anyone.
Captured(exs, target, pieces, field) ==
    IF target = RealStream THEN exs
    ELSE IF exs[target.executor].call = target.call
            /\ exs[target.executor].state \in {"entered", "ran"}
    THEN IF field = "stdout"
         THEN [exs EXCEPT ![target.executor].stdout_capture = @ \o pieces]
         ELSE [exs EXCEPT ![target.executor].stderr_capture = @ \o pieces]
    ELSE exs

----------------------------------------------------------------------------
(* The tools and the constructors as functions of their arguments           *)
(* (src/src/tools.py, src/src/agent.py, src/src/coding_agent.py,            *)
(* src/src/config.py).  A table is its row count and its columns, each with *)
(* a name, the dtype pd.read_csv gives it and its number of nulls.          *)

Column(name, dtype, nulls) == [name |-> name, dtype |-> dtype, nulls |-> nulls]

NoTable == [rows |-> 0, columns |-> <<>>]

\* the tables the dataset file may hold
Tables ==
    { [rows |-> 2, columns |-> <<Column("a", "number", 0), Column("b", "object", 1)>>],
      [rows |-> 1, columns |-> <<Column("a", "number", 0)>>],
      [rows |-> 2, columns |-> <<Column("b", "object", 0)>>],
      [rows |-> 2, columns |-> <<Column("flag", "bool", 0)>>],
      [rows |-> 0, columns |-> <<Column("b", "object", 0)>>],
      [rows |-> 3, columns |-> <<Column("a", "number", 0), Column("c", "number", 1),
                                 Column("d", "number", 0), Column("e", "number", 0),
                                 Column("b", "object", 0)>>] }

\* dataset locators handed to the tools: empty, a loadable file, and files
\* that pd.read_csv raises on
Paths == {"", "data.csv", "missing.csv", "unreadable.csv", "malformed.csv"}

\* the words of the questions
Words ==
    {"Correlation", "correlate", "update", "sometimes", "group", "OUTLIER",
     "spread", "mean"}

\* str.lower() of a word
Lower(w) ==
    CASE w = "Correlation" -> "correlation"
      [] w = "OUTLIER" -> "outlier"
      [] OTHER -> w

\* the keywords that occur in a lower-case word as substrings
Within(w) ==
    CASE w = "correlation" -> {"correlation"}
      [] w = "correlate" -> {"relate"}
      [] w = "update" -> {"date"}
      [] w = "sometimes" -> {"time"}
      [] w = "group" -> {"group"}
      [] w = "outlier" -> {"outlier"}
      [] w = "spread" -> {"spread"}
      [] OTHER -> {}

\* user questions: up to two words
Questions ==
    {<<>>} \cup {<<w>> : w \in Words} \cup {<<v, w>> : v, w \in Words}

\* suggest_analysis_steps: the keyword groups in the order they are
\* checked, each with the suggestion it appends
KeywordGroups ==
    << [words |-> {"correlation", "relationship", "relate"},
        step |-> "6. Correlation Analysis"],
       [words |-> {"trend", "time", "date", "temporal"},
        step |-> "6. Time Series Analysis"],
       [words |-> {"group", "category", "segment"},
        step |-> "6. Group Analysis"],
       [words |-> {"outlier", "anomaly", "unusual"},
        step |-> "6. Outlier Detection"],
       [words |-> {"distribution", "histogram", "spread"},
        step |-> "6. Distribution Analysis"] >>

\* any(word in question_lower for word in words)
AnyWordIn(words, user_question) ==
    \E i \in 1..Len(user_question) : Within(Lower(user_question[i])) \cap words # {}

\* dataframe.select_dtypes(include=...).columns.tolist()
select_dtypes(dataframe, dtype) ==
    LET cols == SelectSeq(dataframe.columns, LAMBDA c : c.dtype = dtype)
    IN [i \in 1..Len(cols) |-> cols[i].name]

\* a suggestion: its numbered heading, and the count and the names it cites
Suggestion(step, count, names) == [step |-> step, count |-> count, names |-> names]

\* names[:3]
FirstThree(names) == SubSeq(names, 1, IF Len(names) < 3 THEN Len(names) ELSE 3)

\* suggest_analysis_steps: the topic suggestions of the groups from k on
RECURSIVE Topics(_, _)
Topics(k, user_question) ==
    IF k > Len(KeywordGroups) THEN <<>>
    ELSE (IF AnyWordIn(KeywordGroups[k].words, user_question)
          THEN <<Suggestion(KeywordGroups[k].step, 0, <<>>)>>
          ELSE <<>>)
         \o Topics(k + 1, user_question)

\* suggest_analysis_steps: the list of suggestions for a loaded table
suggestions(dataframe, user_question) ==
    LET numeric_cols == select_dtypes(dataframe, "number")
        categorical_cols == select_dtypes(dataframe, "object")
    IN << Suggestion("1. Data Overview", 0, <<>>),
          Suggestion("2. Data Quality", Len(dataframe.columns), <<>>),
          Suggestion("3. Statistical Summary", 0, <<>>) >>
       \o (IF numeric_cols # <<>>
           THEN <<Suggestion("4. Numeric Analysis", Len(numeric_cols),
                             FirstThree(numeric_cols))>>
           ELSE <<>>)
       \o (IF categorical_cols # <<>>
           THEN <<Suggestion("5. Categorical Analysis", Len(categorical_cols),
                             FirstThree(categorical_cols))>>
           ELSE <<>>)
       \o Topics(1, user_question)

\* nulls / len(dataframe) * 100, which is NaN for a table without rows
Percentage(nulls, rows) ==
    IF rows = 0 THEN [nan |-> TRUE, value |-> 0]
    ELSE [nan |-> FALSE, value |-> (nulls * 100) \div rows]

NoInfo ==
    [shape |-> <<0, 0>>, columns |-> <<>>, null_counts |-> <<>>,
     null_percentages |-> <<>>,
     numeric_summary |-> <<>>, categorical_info |-> <<>>]

\* variant: the shape is reported columns first
info_transposed(dataframe) ==
    [shape |-> <<Len(dataframe.columns), dataframe.rows>>,
     columns |-> [i \in 1..Len(dataframe.columns) |-> dataframe.columns[i].name],
     null_counts |-> [i \in 1..Len(dataframe.columns) |-> dataframe.columns[i].nulls],
     null_percentages |-> [i \in 1..Len(dataframe.columns) |->
                             Percentage(dataframe.columns[i].nulls, dataframe.rows)],
     numeric_summary |-> select_dtypes(dataframe, "number"),
     categorical_info |-> select_dtypes(dataframe, "object")]

\* get_dataframe_info: the summary of a loaded table
info(dataframe) ==
    [shape |-> <<dataframe.rows, Len(dataframe.columns)>>,
     columns |-> [i \in 1..Len(dataframe.columns) |-> dataframe.columns[i].name],
     null_counts |-> [i \in 1..Len(dataframe.columns) |-> dataframe.columns[i].nulls],
     null_percentages |-> [i \in 1..Len(dataframe.columns) |->
                             Percentage(dataframe.columns[i].nulls, dataframe.rows)],
     numeric_summary |-> select_dtypes(dataframe, "number"),
     categorical_info |-> select_dtypes(dataframe, "object")]

\* the agent variants
Variants == {"DataAnalystAgent", "CodingAgent"}

\* values of MISTRAL_API_KEY in the environment
Credentials == {None, "", "key"}

\* Config.validate
validate(key) == Truthy(key)

\* the names a module of the package defines
Exports(module) ==
    CASE module = "state" -> {"AgentState"}
      [] module = "tools" ->
            {"PandasCodeExecutor", "load_csv_file", "execute_pandas_code",
             "get_dataframe_info", "suggest_analysis_steps"}
      [] OTHER -> {}

\* the names a module imports from the modules of the package
Imports(module) ==
    CASE module = "agent" ->
            [state |-> {"AgentState"},
             tools |-> {"execute_pandas_code", "get_dataframe_info",
                        "suggest_analysis_steps"}]
      [] OTHER ->
            [state |-> {"CodingAgentState"},
             tools |-> {"execute_python_code", "get_dataframe_info",
                        "suggest_analysis_steps"}]

\* importing a module succeeds when every name it imports is defined
Importable(module) ==
    /\ Imports(module).state \subseteq Exports("state")
    /\ Imports(module).tools \subseteq Exports("tools")

\* the module that defines an agent variant
ModuleOf(variant) == IF variant = "DataAnalystAgent" THEN "agent" ELSE "coding_agent"

\* the outcome of obtaining an agent: whether an object exists and, when
\* none does, the error raised and the step that raised it
Constructed == [exists |-> TRUE, error |-> None, at |-> None]
Refused(at, text) == [exists |-> FALSE, error |-> text, at |-> at]

\* DataAnalystAgent.__init__, with the credential found in the environment
DataAnalystAgent(key) ==
    IF ~validate(key)
    THEN Refused("construction", "Invalid configuration. Please check your API keys.")
    ELSE Constructed

\* CodingAgent.__init__, with the credential found in the environment: it
\* makes no check of its own and hands the key to the chat model as it is
CodingAgent(key) == Constructed

\* str(e) of the exception pd.read_csv raises on a file it cannot load
read_csv_error(path) ==
    CASE path = "missing.csv" -> "No such file or directory"
      [] path = "unreadable.csv" -> "Permission denied"
      [] OTHER -> "Error tokenizing data"

\* the 'error' entry of a tool's result when the load raised
LoadError(name, path) ==
    IF name = "get_dataframe_info"
    THEN <<read_csv_error(path)>>
    ELSE <<"Failed to load CSV file", read_csv_error(path)>>

\* the 'error' entry of a tool's result when no locator was given
NoLocatorError(name) ==
    IF name = "execute_pandas_code"
    THEN <<"No CSV file specified. Please load a CSV file first.">>
    ELSE <<"No CSV file specified">>

\* a tool called with these arguments: the head of its result
ToolResult(name, path) ==
    LET args == [name |-> name, code |-> "print", path |-> path, wellformed |-> TRUE]
    IN IF name = "execute_pandas_code" THEN execute_pandas_code(args)
       ELSE IF name = "get_dataframe_info" THEN get_dataframe_info(args)
       ELSE suggest_analysis_steps(args)

\* the values a byte of os.urandom may take
Bytes == {0, 171, 255}

\* os.urandom(4): the byte strings it may return
RandomBytes == [1..4 -> Bytes]

\* bytes.hex(): two hexadecimal digits for every byte
RECURSIVE hex(_)
hex(bytes) ==
    IF bytes = <<>> THEN <<>>
    ELSE <<bytes[1] \div 16, bytes[1] % 16>> \o hex(SubSeq(bytes, 2, Len(bytes)))

\* a thread identifier of the interactive mode: the fixed name, followed
\* after a clear by an underscore and a number
ThreadId(suffix) == [name |-> "interactive_session", suffix |-> suffix]

\* interactive_mode on 'clear': f"interactive_session_{len(os.urandom(4).hex())}"
ClearedThreadId(bytes) == ThreadId(<<Len(hex(bytes))>>)

\* paths typed after 'load'
LoadPaths == {"data.csv", "missing.csv"}

\* validate_csv_file, for files below the size limit
validate_csv_file(file_path) == file_path \in Files

\* interactive_mode before the first command: the thread identifier, the
\* dataset, the session store (thread identifier -> messages), and observed
\* besides: the commands and queries read, whether a clear came since the
\* latest query, and of the latest query its thread, whether a clear came
\* before it, whether its thread had been used by an earlier query, and the
\* messages the planner was given.
NoSession ==
    [stage |-> "prompt", thread_id |-> ThreadId(<<>>), csv_file |-> None,
     store |-> <<>>, commands |-> 0, queries |-> 0, cleared |-> FALSE,
     last |-> [thread_id |-> ThreadId(<<>>), after_clear |-> FALSE,
               reused |-> FALSE, seen |-> <<>>]]

\* no call made yet
NoCall ==
    [op |-> None, path |-> None, table |-> NoTable, question |-> <<>>,
     key |-> None, stage |-> "idle", loads |-> 0, returned |-> <<>>,
     error |-> <<>>, suggestions |-> <<>>, info |-> NoInfo,
     agent |-> Refused(None, None), again |-> FALSE, previous |-> <<>>]

----------------------------------------------------------------------------
(* The state machine *)

Init ==
    /\ checkpoints = <<>>
    /\ pc = "idle"
    /\ cur = "t1"
    /\ initial_state = NoState
    /\ work = NoState
    /\ tstat = <<>>
    /\ cycles = 0
    /\ events = 0
    /\ result = [response |-> <<>>, state |-> NoState, events |-> 0,
                 success |-> FALSE, error |-> None]
    /\ runs = 0
    /\ fresh = 0
    /\ invoked = 0
    /\ log = [t \in Threads |-> <<>>]
    /\ h = NoHistory
    /\ executors = [e \in Threads |-> NoExecutor]
    /\ heap = <<LoadedTable>>
    /\ sys_stdout = RealStream
    /\ sys_stderr = RealStream
    /\ terminal = [out |-> <<>>, err |-> <<>>]
    /\ snippets = 0
    /\ io = NoCall
    /\ session = NoSession

\* run(user_input, csv_file_path, thread_id) up to the first superstep: the
\* input state is built, applied to the thread's channels and checkpointed.
StartRun(t, user_input, csv_file_path) ==
    /\ pc = "idle"
    /\ runs < MaxRuns
    /\ LET input == InitialState(user_input, csv_file_path, fresh + 1) IN
       /\ initial_state' = input
       /\ work' = ApplyInput(t, input)
       /\ checkpoints' = Save(t, ApplyInput(t, input))
    /\ cur' = t
    /\ pc' = "Reasoning"
    /\ tstat' = <<>>
    /\ cycles' = 0
    /\ events' = 0
    /\ runs' = runs + 1
    /\ fresh' = fresh + 1
    /\ log' = [log EXCEPT ![t] = Append(@, HumanMessage(fresh + 1,
                                      UserContent(user_input, csv_file_path)))]
    /\ h' = [NoHistory EXCEPT !.prior = log[t], !.user_input = user_input,
                              !.locator = csv_file_path]
    /\ UNCHANGED <<result, invoked>>

\* variant: the agent node returns no message
AgentReply_no_message(content, reqs) ==
    /\ pc = "Reasoning"
    /\ Len(reqs) > 0 => cycles < MaxCycles
    /\ invoked < MaxPlannerCalls
    /\ invoked' = invoked + 1
    /\ work' = [work EXCEPT !.error = None]
    /\ pc' = "Deciding"
    /\ h' = [h EXCEPT !.planner_calls = @ + 1, !.seen = work.messages]
    /\ UNCHANGED <<checkpoints, cur, initial_state, tstat, cycles, events, result,
                   runs, fresh, log>>

\* _agent_node, the planner replying: the reply is appended, current_task is
\* kept or taken from the last user message, the error is cleared.
Reply(content, reqs) ==
    /\ pc = "Reasoning"
    /\ invoked' = invoked + 1
    /\ LET current_task ==
               IF Falsy(work.current_task) /\ Len(work.messages) > 0
                  /\ Last(work.messages).role = "user"
               THEN Last(work.messages).content
               ELSE work.current_task
           response == AIMessage(fresh + 1, <<content>>, ToolCalls(reqs, fresh + 1))
       IN /\ work' = [work EXCEPT !.messages = add_messages(@, <<response>>),
                                  !.current_task = current_task,
                                  !.error = None]
          /\ log' = [log EXCEPT ![cur] = Append(@, response)]
    /\ fresh' = fresh + 1 + Len(reqs)
    /\ pc' = "Deciding"
    /\ h' = [h EXCEPT !.planner_calls = @ + 1, !.seen = work.messages]
    /\ UNCHANGED <<checkpoints, cur, initial_state, tstat, cycles, events, result, runs>>

\* _agent_node within the explored tool rounds and planner invocations
AgentReply(content, reqs) ==
    /\ Len(reqs) > 0 => cycles < MaxCycles
    /\ invoked < MaxPlannerCalls
    /\ Reply(content, reqs)

\* _agent_node in a long run: the planner keeps requesting one tool, up to
\* one round past the configured iteration limit, or gives its final answer
LongReply(reqs) ==
    /\ Len(reqs) > 0 => cycles <= MAX_ITERATIONS
    /\ Reply("a1", reqs)

\* variant: the planner fault is swallowed and the planner is invoked again
PlannerFault_retry(text) ==
    /\ pc = "Reasoning"
    /\ invoked < MaxPlannerCalls
    /\ invoked' = invoked + 1
    /\ h' = [h EXCEPT !.planner_calls = @ + 1, !.seen = work.messages,
                      !.aborted = TRUE, !.fault = text]
    /\ UNCHANGED <<checkpoints, pc, cur, initial_state, work, tstat, cycles, events,
                   result, runs, fresh, log>>

\* variant: the except branch writes the input state back to the thread
PlannerFault_saves_input(text) ==
    /\ pc = "Reasoning"
    /\ invoked < MaxPlannerCalls
    /\ invoked' = invoked + 1
    /\ result' = [response |-> <<"Error occurred: ", text>>, state |-> initial_state,
                  events |-> 0, success |-> FALSE, error |-> text]
    /\ checkpoints' = [x \in DOMAIN checkpoints |->
                          IF x = cur THEN initial_state ELSE checkpoints[x]]
    /\ pc' = "idle"
    /\ h' = [h EXCEPT !.planner_calls = @ + 1, !.seen = work.messages,
                      !.aborted = TRUE, !.fault = text,
                      !.returned_from = "Reasoning"]
    /\ UNCHANGED <<cur, initial_state, work, tstat, cycles, events, runs, fresh, log>>

\* variant: the fault of the planner is recorded in the thread's state
PlannerFault_records_error(text) ==
    /\ pc = "Reasoning"
    /\ invoked < MaxPlannerCalls
    /\ invoked' = invoked + 1
    /\ result' = Failure(text)
    /\ checkpoints' = Save(cur, [checkpoints[cur] EXCEPT !.error = text])
    /\ pc' = "idle"
    /\ h' = [h EXCEPT !.planner_calls = @ + 1, !.seen = work.messages,
                      !.aborted = TRUE, !.fault = text,
                      !.returned_from = "Reasoning"]
    /\ UNCHANGED <<cur, initial_state, work, tstat, cycles, events,
                   runs, fresh, log>>

\* _agent_node, the planner invocation raising: the superstep writes nothing,
\* the fault leaves stream() and run() returns the failure result.
PlannerFault(text) ==
    /\ pc = "Reasoning"
    /\ invoked < MaxPlannerCalls
    /\ invoked' = invoked + 1
    /\ result' = Failure(text)
    /\ pc' = "idle"
    /\ h' = [h EXCEPT !.planner_calls = @ + 1, !.seen = work.messages,
                      !.aborted = TRUE, !.fault = text,
                      !.returned_from = "Reasoning"]
    /\ UNCHANGED <<checkpoints, cur, initial_state, work, tstat, cycles, events,
                   runs, fresh, log>>

\* The conditional edge after the agent node, and the end of that superstep:
\* the channel values are checkpointed and one event is streamed.
ShouldContinue ==
    /\ pc = "Deciding"
    /\ IF should_continue(work) = "continue"
       THEN /\ pc' = "ToolExecution"
            /\ tstat' = [k \in 1..Len(Last(work.messages).tool_calls) |-> "pending"]
       ELSE /\ pc' = "Terminal"
            /\ tstat' = <<>>
    /\ checkpoints' = Save(cur, work)
    /\ events' = events + 1
    /\ h' = [h EXCEPT !.decided_on = Last(work.messages).role]
    /\ UNCHANGED <<cur, initial_state, work, cycles, result, runs, fresh, invoked, log>>

\* Tool node: the call k is handed to a pool thread (calls are submitted in
\* request order) and its tool starts.
ToolStart(k) ==
    /\ pc = "ToolExecution"
    /\ k \in DOMAIN tstat
    /\ tstat[k] = "pending"
    /\ \A j \in 1..(k - 1) : tstat[j] # "pending"
    /\ tstat' = [tstat EXCEPT ![k] = "running"]
    /\ h' = [h EXCEPT !.dispatches = @ + 1]
    /\ UNCHANGED <<checkpoints, pc, cur, initial_state, work, cycles, events,
                   result, runs, fresh, invoked, log>>

\* Tool node: the tool of call k returns.
ToolFinish(k) ==
    /\ pc = "ToolExecution"
    /\ k \in DOMAIN tstat
    /\ tstat[k] = "running"
    /\ tstat' = [tstat EXCEPT ![k] = "done"]
    /\ UNCHANGED <<checkpoints, pc, cur, initial_state, work, cycles, events,
                   result, runs, fresh, invoked, log, h>>

\* variant: only the first tool call of a reply is run
ToolOutputs_first_only(calls, base) == <<RunOne(calls[1], base + 1)>>

\* The tool messages of the newest assistant message's calls, in call order.
ToolOutputs(calls, base) ==
    [k \in 1..Len(calls) |-> RunOne(calls[k], base + k)]

\* Tool node: every call has returned; the tool messages are appended, the
\* superstep ends (checkpoint, event) and the edge leads back to the agent.
ToolsComplete ==
    /\ pc = "ToolExecution"
    /\ \A k \in DOMAIN tstat : tstat[k] = "done"
    /\ LET calls == Last(work.messages).tool_calls
           values == [work EXCEPT !.messages =
                          add_messages(@, ToolOutputs(calls, fresh))]
       IN /\ work' = values
          /\ checkpoints' = Save(cur, values)
          /\ fresh' = fresh + Len(calls)
          /\ log' = [log EXCEPT ![cur] = @ \o ToolOutputs(calls, fresh)]
    /\ tstat' = <<>>
    /\ cycles' = cycles + 1
    /\ events' = events + 1
    /\ pc' = "Reasoning"
    /\ UNCHANGED <<cur, initial_state, result, runs, invoked, h>>

\* run(): the stream has ended at END; the final state is read back from
\* the checkpointer and the success result is returned.
Return ==
    /\ pc = "Terminal"
    /\ result' = Success(checkpoints[cur])
    /\ pc' = "idle"
    /\ h' = [h EXCEPT !.returned_from = "Terminal"]
    /\ UNCHANGED <<checkpoints, cur, initial_state, work, tstat, cycles, events,
                   runs, fresh, invoked, log>>

\* get_conversation_history(thread_id), called between runs: the accessor
\* reads the checkpointer and changes nothing.
GetHistory(t) ==
    /\ pc = "idle"
    /\ h' = [h EXCEPT !.asked = t, !.history = get_conversation_history(t)]
    /\ UNCHANGED <<checkpoints, pc, cur, initial_state, work, tstat, cycles, events,
                   result, runs, fresh, invoked, log>>

\* variant: the constructor keeps the caller's table as its working table
Construct_no_copy(e) ==
    /\ executors[e].state = "absent"
    /\ heap' = heap \o <<heap[DatasetFile], heap[DatasetFile]>>
    /\ executors' = [executors EXCEPT ![e].state = "ready",
                                      ![e].dataframe = Len(heap) + 1,
                                      ![e].df = Len(heap) + 1,
                                      ![e].original_df = Len(heap) + 2,
                                      ![e].given = heap[DatasetFile]]
    /\ UNCHANGED <<sys_stdout, sys_stderr, terminal, snippets>>

\* execute_pandas_code up to the call of execute_code: the dataset is
\* loaded with pd.read_csv and PandasCodeExecutor(dataframe) copies the
\* loaded table twice.
Construct(e) ==
    /\ executors[e].state = "absent"
    /\ heap' = heap \o <<heap[DatasetFile], heap[DatasetFile], heap[DatasetFile]>>
    /\ executors' = [executors EXCEPT ![e].state = "ready",
                                      ![e].dataframe = Len(heap) + 1,
                                      ![e].df = Len(heap) + 2,
                                      ![e].original_df = Len(heap) + 3,
                                      ![e].given = heap[DatasetFile]]
    /\ UNCHANGED <<sys_stdout, sys_stderr, terminal, snippets>>

\* execute_code(code) up to the with statement: the namespace and the
\* capture buffers are built, and the process's streams are pointed at the
\* buffers, the streams found there being kept for the exit.
ExecuteEnter(e, code) ==
    /\ executors[e].state = "ready"
    /\ snippets < MaxSnippets
    /\ snippets' = snippets + 1
    /\ executors' = [executors EXCEPT ![e].state = "entered",
                                      ![e].call = @ + 1,
                                      ![e].code = code,
                                      ![e].old_stdout = sys_stdout,
                                      ![e].old_stderr = sys_stderr,
                                      ![e].stdout_capture = <<>>,
                                      ![e].stderr_capture = <<>>,
                                      ![e].raised = FALSE,
                                      ![e].message = "",
                                      ![e].result = NoResult,
                                      ![e].touched = FALSE,
                                      ![e].entry =
                                          [df |-> heap[executors[e].df],
                                           original_df |->
                                               heap[executors[e].original_df]]]
    /\ sys_stdout' = Buffer(e, executors[e].call + 1)
    /\ sys_stderr' = Buffer(e, executors[e].call + 1)
    /\ UNCHANGED <<heap, terminal>>

\* execute_code, the body of the with statement: the snippet runs, what it
\* writes goes to whatever the process's streams point at, and unless it
\* raised the binding of df is stored and copied into the result.
ExecuteBody(e) ==
    /\ executors[e].state = "entered"
    /\ LET x == executors[e]
           eff == Effect(x.code, x.df, x.original_df, heap)
           copies == ~eff.raised /\ IsTable(eff.heap, eff.df)
           copy == ResultTable(eff.heap, StoredDf(x, eff))
           written == Captured(Captured(executors, sys_stdout,
                                        Pieces(e, eff.out), "stdout"),
                               sys_stderr, Pieces(e, eff.err), "stderr")
       IN /\ heap' = IF copies THEN copy.heap ELSE eff.heap
          /\ executors' =
                [written EXCEPT
                   ![e].state = "ran",
                   ![e].df = StoredDf(x, eff),
                   ![e].raised = ~copies,
                   ![e].message = IF eff.raised THEN eff.message
                                  ELSE IF copies THEN ""
                                  ELSE "object has no attribute copy",
                   ![e].result.dataframe = IF copies THEN copy.ref ELSE 0,
                   ![e].held = IF copies THEN @ \cup {copy.ref} ELSE @,
                   ![e].reached = @ \cup eff.reached]
          /\ terminal' =
                [out |-> IF sys_stdout = RealStream
                         THEN terminal.out \o Pieces(e, eff.out) ELSE terminal.out,
                 err |-> IF sys_stderr = RealStream
                         THEN terminal.err \o Pieces(e, eff.err) ELSE terminal.err]
    /\ UNCHANGED <<sys_stdout, sys_stderr, snippets>>

\* execute_code: the error text of the result, str(e) of the fault followed
\* by what the stderr buffer holds
ExecuteError(x) ==
    (IF x.raised THEN <<x.message>> ELSE <<"">>)
    \o (IF x.stderr_capture # <<>>
        THEN <<"Stderr: ">> \o [i \in 1..Len(x.stderr_capture) |-> x.stderr_capture[i][2]]
        ELSE <<>>)

\* execute_code from the end of the with statement: the streams kept at
\* entry are put back, the result is completed from the buffers and returned.
ExecuteReturn(e) ==
    /\ executors[e].state = "ran"
    /\ sys_stdout' = executors[e].old_stdout
    /\ sys_stderr' = executors[e].old_stderr
    /\ executors' = [executors EXCEPT
                       ![e].state = "ready",
                       ![e].result.success = ~executors[e].raised,
                       ![e].result.output = executors[e].stdout_capture,
                       ![e].result.error = ExecuteError(executors[e])]
    /\ UNCHANGED <<heap, terminal, snippets>>

\* execute_pandas_code after execute_code: the result goes back to the tool
\* node and the executor is dropped; the next dispatch builds its own.
DispatchReturn(e) ==
    /\ executors[e].state = "ready"
    /\ executors[e].code # None
    /\ executors' = [executors EXCEPT
                       ![e] = [NoExecutor EXCEPT !.call = executors[e].call]]
    /\ UNCHANGED <<heap, sys_stdout, sys_stderr, terminal, snippets>>

\* The caller changes, in place, the table the latest call returned to it.
CallerMutates(e) ==
    /\ executors[e].state = "ready"
    /\ executors[e].result.dataframe # 0
    /\ ~executors[e].touched
    /\ heap' = Mutated(heap, executors[e].result.dataframe)
    /\ executors' = [executors EXCEPT ![e].touched = TRUE]
    /\ UNCHANGED <<sys_stdout, sys_stderr, terminal, snippets>>

\* A tool is called on its own with a locator and, for the suggestions, a
\* question; table is what the file holds when it can be loaded.
Invoke(name, path, table, question) ==
    /\ io.stage \in {"idle", "returned"}
    /\ io' = [NoCall EXCEPT !.op = name, !.path = path, !.table = table,
                            !.question = question, !.stage = "called"]

\* variant: the load is attempted whatever the locator
LoadCsv_unguarded ==
    /\ io.stage = "called"
    /\ io' = [io EXCEPT !.stage = "loaded", !.loads = io.loads + 1]

\* the tool passes its `if not csv_file_path` guard and reaches pd.read_csv
LoadCsv ==
    /\ io.stage = "called"
    /\ Truthy(io.path)
    /\ io' = [io EXCEPT !.stage = "loaded", !.loads = io.loads + 1]

\* the tool returns its result
ToolReturn ==
    /\ \/ io.stage = "called" /\ ~Truthy(io.path)
       \/ io.stage = "loaded"
    /\ LET loaded == io.stage = "loaded" /\ io.path \in Files IN
       io' = [io EXCEPT
                !.stage = "returned",
                !.returned = ToolResult(io.op, io.path),
                !.error = IF loaded THEN <<>>
                          ELSE IF io.stage = "loaded"
                          THEN LoadError(io.op, io.path)
                          ELSE NoLocatorError(io.op),
                !.info = IF loaded /\ io.op = "get_dataframe_info"
                         THEN info(io.table) ELSE NoInfo,
                !.suggestions = IF loaded /\ io.op = "suggest_analysis_steps"
                                THEN suggestions(io.table, io.question)
                                ELSE <<>>]

\* the same tool is called again with the same arguments on the same file
Again ==
    /\ io.stage = "returned"
    /\ io.op \in ToolNames
    /\ ~io.again
    /\ io' = [NoCall EXCEPT !.op = io.op, !.path = io.path, !.table = io.table,
                            !.question = io.question, !.stage = "called",
                            !.again = TRUE,
                            !.previous = <<[returned |-> io.returned,
                                            error |-> io.error,
                                            info |-> io.info,
                                            suggestions |-> io.suggestions]>>]

\* the module of an agent variant is imported, with the credential the
\* environment holds; an import of a name the package does not define raises
ImportAgent(variant, key) ==
    /\ io.stage \in {"idle", "returned"}
    /\ io' = IF Importable(ModuleOf(variant))
             THEN [NoCall EXCEPT !.op = variant, !.key = key, !.stage = "imported"]
             ELSE [NoCall EXCEPT !.op = variant, !.key = key, !.stage = "returned",
                                 !.agent = Refused("import", "ImportError")]

\* the constructor of the imported class runs
NewAgent ==
    /\ io.stage = "imported"
    /\ io' = [io EXCEPT
                !.stage = "returned",
                !.agent = IF io.op = "DataAnalystAgent"
                          THEN DataAnalystAgent(io.key) ELSE CodingAgent(io.key)]

\* interactive_mode: a command is read at the prompt
Reads ==
    /\ session.stage = "prompt"
    /\ session.commands < MaxCommands

\* 'quit', 'exit' or 'q': the loop ends
Quit ==
    /\ Reads
    /\ session' = [session EXCEPT !.stage = "quit", !.commands = @ + 1]

\* 'help' or an empty line: the loop continues
Help ==
    /\ Reads
    /\ session' = [session EXCEPT !.commands = @ + 1]

\* 'clear': the thread identifier is replaced
Clear(bytes) ==
    /\ Reads
    /\ session' = [session EXCEPT !.thread_id = ClearedThreadId(bytes),
                                  !.cleared = TRUE, !.commands = @ + 1]

\* 'load <path>': the dataset is replaced if the file validates
Load(new_csv_path) ==
    /\ Reads
    /\ session' = [session EXCEPT
                     !.csv_file = IF validate_csv_file(new_csv_path)
                                  THEN new_csv_path ELSE @,
                     !.commands = @ + 1]

\* any other line: agent.run(user_input, csv_file, thread_id).  The run
\* appends the user message to what the store holds for the thread and
\* gives the planner the result; the planner's answer is appended unless
\* the planner faults.  The question is identified by its number.
Query(answered) ==
    /\ Reads
    /\ LET t == session.thread_id
           prior == IF t \in DOMAIN session.store THEN session.store[t] ELSE <<>>
           n == session.queries + 1
           given == add_messages(prior,
                       <<HumanMessage(n, UserContent("q1", session.csv_file))>>)
           final == IF answered
                    THEN add_messages(given, <<AIMessage(n, <<"a1">>, <<>>)>>)
                    ELSE given
       IN session' = [session EXCEPT
                        !.store = [x \in (DOMAIN session.store) \cup {t} |->
                                      IF x = t THEN final ELSE session.store[x]],
                        !.commands = @ + 1,
                        !.queries = n,
                        !.cleared = FALSE,
                        !.last = [thread_id |-> t,
                                  after_clear |-> session.cleared,
                                  reused |-> t \in DOMAIN session.store,
                                  seen |-> given]]

Next ==
    \/ \E t \in Threads, u \in Inputs, p \in Locators : StartRun(t, u, p) /\ UNCHANGED <<execvars, io, session>>
    \/ \E c \in Contents : AgentReply(c, <<>>) /\ UNCHANGED <<execvars, io, session>>
    \/ \E reqs \in CallMenus : AgentReply("a1", reqs) /\ UNCHANGED <<execvars, io, session>>
    \/ \E f \in Faults : PlannerFault(f) /\ UNCHANGED <<execvars, io, session>>
    \/ ShouldContinue /\ UNCHANGED <<execvars, io, session>>
    \/ \E k \in DOMAIN tstat : ToolStart(k) /\ UNCHANGED <<execvars, io, session>>
    \/ \E k \in DOMAIN tstat : ToolFinish(k) /\ UNCHANGED <<execvars, io, session>>
    \/ ToolsComplete /\ UNCHANGED <<execvars, io, session>>
    \/ Return /\ UNCHANGED <<execvars, io, session>>
    \/ \E t \in Threads : GetHistory(t) /\ UNCHANGED <<execvars, io, session>>

Spec == Init /\ [][Next]_vars

\* Calls of execute_code on the executors of two callers, overlapping as
\* the callers' threads are scheduled.
ExecNext ==
    \/ \E e \in Threads : Construct(e) /\ UNCHANGED <<loopvars, io, session>>
    \/ \E e \in Threads, code \in Snippets : ExecuteEnter(e, code) /\ UNCHANGED <<loopvars, io, session>>
    \/ \E e \in Threads : ExecuteBody(e) /\ UNCHANGED <<loopvars, io, session>>
    \/ \E e \in Threads : ExecuteReturn(e) /\ UNCHANGED <<loopvars, io, session>>
    \/ \E e \in Threads : DispatchReturn(e) /\ UNCHANGED <<loopvars, io, session>>
    \/ \E e \in Threads : CallerMutates(e) /\ UNCHANGED <<loopvars, io, session>>

ExecSpec == Init /\ [][ExecNext]_vars

\* Calls of execute_code by a single caller, one after the other.
SoloNext ==
    \/ Construct("t1") /\ UNCHANGED <<loopvars, io, session>>
    \/ \E code \in Snippets : ExecuteEnter("t1", code) /\ UNCHANGED <<loopvars, io, session>>
    \/ ExecuteBody("t1") /\ UNCHANGED <<loopvars, io, session>>
    \/ ExecuteReturn("t1") /\ UNCHANGED <<loopvars, io, session>>
    \/ DispatchReturn("t1") /\ UNCHANGED <<loopvars, io, session>>
    \/ CallerMutates("t1") /\ UNCHANGED <<loopvars, io, session>>

SoloSpec == Init /\ [][SoloNext]_vars

\* The tools and the constructors called on their own, one call at a time.
EntryNext ==
    \/ \E name \in ToolNames, path \in Paths, question \in Questions :
          \E table \in (IF path \in Files THEN Tables ELSE {NoTable}) :
             /\ name # "suggest_analysis_steps" => question = <<>>
             /\ Invoke(name, path, table, question)
             /\ UNCHANGED <<loopvars, execvars, session>>
    \/ LoadCsv /\ UNCHANGED <<loopvars, execvars, session>>
    \/ ToolReturn /\ UNCHANGED <<loopvars, execvars, session>>
    \/ Again /\ UNCHANGED <<loopvars, execvars, session>>
    \/ \E variant \in Variants, key \in Credentials :
          ImportAgent(variant, key) /\ UNCHANGED <<loopvars, execvars, session>>
    \/ NewAgent /\ UNCHANGED <<loopvars, execvars, session>>

EntrySpec == Init /\ [][EntryNext]_vars

\* One interactive session: the commands read by the loop of
\* interactive_mode, in any order.
SessionNext ==
    \/ Quit /\ UNCHANGED <<loopvars, execvars, io>>
    \/ Help /\ UNCHANGED <<loopvars, execvars, io>>
    \/ \E bytes \in RandomBytes : Clear(bytes) /\ UNCHANGED <<loopvars, execvars, io>>
    \/ \E path \in LoadPaths : Load(path) /\ UNCHANGED <<loopvars, execvars, io>>
    \/ \E answered \in BOOLEAN : Query(answered) /\ UNCHANGED <<loopvars, execvars, io>>

SessionSpec == Init /\ [][SessionNext]_vars


\* Runs in which the planner always replies, on one thread.  The steps
\* between two planner invocations are the runtime's and run()'s own code and
\* are taken once enabled; a dispatched tool is taken to return.
LiveNext ==
    \/ \E u \in Inputs, p \in Locators : StartRun("t1", u, p) /\ UNCHANGED <<execvars, io, session>>
    \/ \E c \in Contents : AgentReply(c, <<>>) /\ UNCHANGED <<execvars, io, session>>
    \/ \E reqs \in CallMenus : AgentReply("a1", reqs) /\ UNCHANGED <<execvars, io, session>>
    \/ ShouldContinue /\ UNCHANGED <<execvars, io, session>>
    \/ \E k \in DOMAIN tstat : ToolStart(k) /\ UNCHANGED <<execvars, io, session>>
    \/ \E k \in DOMAIN tstat : ToolFinish(k) /\ UNCHANGED <<execvars, io, session>>
    \/ ToolsComplete /\ UNCHANGED <<execvars, io, session>>
    \/ Return /\ UNCHANGED <<execvars, io, session>>

\* Long runs on one thread: the planner requests one tool per reply for as
\* long as it likes.
LongNext ==
    \/ StartRun("t1", "q1", "data.csv") /\ UNCHANGED <<execvars, io, session>>
    \/ LongReply(<<Request("get_dataframe_info", "")>>) /\ UNCHANGED <<execvars, io, session>>
    \/ LongReply(<<>>) /\ UNCHANGED <<execvars, io, session>>
    \/ ShouldContinue /\ UNCHANGED <<execvars, io, session>>
    \/ \E k \in DOMAIN tstat : ToolStart(k) /\ UNCHANGED <<execvars, io, session>>
    \/ \E k \in DOMAIN tstat : ToolFinish(k) /\ UNCHANGED <<execvars, io, session>>
    \/ ToolsComplete /\ UNCHANGED <<execvars, io, session>>
    \/ Return /\ UNCHANGED <<execvars, io, session>>

LongSpec == Init /\ [][LongNext]_vars

LiveSpec ==
    /\ Init
    /\ [][LiveNext]_vars
    /\ WF_vars(ShouldContinue /\ UNCHANGED <<execvars, io, session>>)
    /\ WF_vars(\E k \in DOMAIN tstat : ToolStart(k) /\ UNCHANGED <<execvars, io, session>>)
    /\ WF_vars(\E k \in DOMAIN tstat : ToolFinish(k) /\ UNCHANGED <<execvars, io, session>>)
    /\ WF_vars(ToolsComplete /\ UNCHANGED <<execvars, io, session>>)
    /\ WF_vars(Return /\ UNCHANGED <<execvars, io, session>>)

----------------------------------------------------------------------------
(* Properties *)

NewestCalls == Last(work.messages).tool_calls

\* C1: after every planner reply the next state is ToolExecution if the
\* newest assistant message carries at least one tool request and Terminal
\* if it carries none, nothing else; and ToolExecution is entered only from
\* the Reasoning step's decision.
C1_Transition ==
    [][ /\ (pc = "Deciding" /\ pc' # pc) =>
              pc' = IF Len(NewestCalls) > 0 THEN "ToolExecution" ELSE "Terminal"
        /\ (pc' = "ToolExecution" /\ pc # "ToolExecution") =>
              (pc = "Deciding" /\ h.planner_calls > 0)
        /\ (pc = "Reasoning" /\ pc' # pc) => pc' \in {"Deciding", "idle"} ]_vars

\* C1 witness: a second tool round with two requests has been entered.
C1_Witness == pc = "ToolExecution" /\ Len(tstat) = 2 /\ cycles = 1

\* request k of message i of m has exactly one tool result in m, and it comes
\* after message i with only tool results in between
ToolRequestAnswered(m, i, k) ==
    LET answers == { j \in 1..Len(m) : /\ m[j].role = "tool-result"
                                       /\ m[j].tool_call_id = m[i].tool_calls[k].id }
    IN /\ Cardinality(answers) = 1
       /\ \A j \in answers : j > i /\ \A x \in (i + 1)..j : m[x].role = "tool-result"

AllAnswered(m, upto) ==
    \A i \in 1..upto : \A k \in 1..Len(m[i].tool_calls) : ToolRequestAnswered(m, i, k)

C3_Continuity ==
    LET expected == h.prior \o initial_state.messages IN
    /\ h.planner_calls > 0 => IsPrefix(expected, h.seen)
    /\ (runs > 0 /\ pc = "idle") => IsPrefix(expected, get_conversation_history(cur))

\* C3 witness: the second run on a thread has returned after its planner saw
\* the first run's messages.
C3_Witness ==
    /\ pc = "idle" /\ runs = 2 /\ result.success
    /\ Len(h.prior) >= 4 /\ h.planner_calls > 0

\* C4: the message sequence stored for a thread only grows at its end: what is
\* stored before a step is a prefix of what is stored after it.
C4_AppendOnly ==
    [][ \A t \in DOMAIN checkpoints :
           /\ t \in DOMAIN checkpoints'
           /\ IsPrefix(checkpoints[t].messages, checkpoints'[t].messages) ]_vars

\* C4 witness: a thread's stored sequence has grown over two runs.
C4_Witness ==
    /\ runs = 2 /\ Len(h.prior) > 0
    /\ cur \in DOMAIN checkpoints /\ Len(checkpoints[cur].messages) >= 6

\* C5: once the planner invocation has raised in a run, the run is over: it
\* has returned success=false with the fault text as error, and neither the
\* planner nor a tool is run for it again.
C5_PlannerFaultAborts ==
    h.aborted =>
        /\ pc = "idle" /\ tstat = <<>>
        /\ result.success = FALSE
        /\ result.error = h.fault /\ h.fault \in Faults

\* C5 witness: the planner raised at the second Reasoning step of a run.
C5_Witness == h.aborted /\ h.planner_calls = 2 /\ cycles = 1

\* C6: after a run aborted by a planner fault, the thread's persisted messages
\* are exactly the messages appended before the faulting call.
C6_AbortPersists ==
    h.aborted =>
        /\ cur \in DOMAIN checkpoints
        /\ checkpoints[cur].messages = log[cur]
        /\ checkpoints[cur].messages = h.seen
        /\ IsPrefix(h.prior \o initial_state.messages, checkpoints[cur].messages)

\* C6 witness: the aborted run resumed a thread with history and had appended
\* its user message, an assistant message and a tool result before the fault.
C6_Witness ==
    /\ h.aborted /\ Len(h.prior) > 0
    /\ Len(log[cur]) >= Len(h.prior) + 3

\* a tool call whose dispatch faults: the snippet raises, the dataset is
\* missing, or the arguments are malformed
Faulting(call) ==
    \/ ~call.args.wellformed
    \/ call.args.path \notin Files
    \/ call.name = "execute_pandas_code" /\ call.args.code = "raise"

\* C7: a faulting tool dispatch does not abort the run: the tool round ends
\* in Reasoning with nothing returned, each request has its tool result
\* appended in request order, a faulting request's result reports the
\* failure, and the next planner invocation is given those results.
C7_ToolFaultRecovered ==
    [][ /\ (pc = "ToolExecution" /\ pc' # pc) =>
              /\ pc' = "Reasoning" /\ result' = result
              /\ Len(work'.messages) = Len(work.messages) + Len(NewestCalls)
              /\ \A k \in 1..Len(NewestCalls) :
                    LET m == work'.messages[Len(work.messages) + k] IN
                    /\ m.role = "tool-result"
                    /\ m.tool_call_id = NewestCalls[k].id
                    /\ Faulting(NewestCalls[k]) => ReportsFailure(m)
        /\ (h'.planner_calls = h.planner_calls + 1 /\ cycles > 0) =>
              /\ h'.seen = checkpoints[cur].messages
              /\ Last(h'.seen).role = "tool-result" ]_vars

\* C7 witness: the planner has replied again after a tool round in which a
\* snippet raised.
C7_Witness ==
    /\ pc = "Deciding" /\ cycles = 1
    /\ \E j \in 1..Len(h.seen) :
          /\ ReportsFailure(h.seen[j])
          /\ h.seen[j].content[2] = "fault"

\* C8 (as claimed): the dispatch of a request does not start before the
\* dispatch of the request before it has finished.
C8_Sequential ==
    \A k \in DOMAIN tstat : (k > 1 /\ tstat[k] # "pending") => tstat[k - 1] = "done"

\* C9: whenever the continue-or-stop decision is evaluated, the last message
\* is an assistant message, namely the planner reply just appended.
C9_DecisionOnAssistant ==
    /\ h.decided_on \in {"none", "assistant"}
    /\ pc = "Deciding" =>
          /\ Last(work.messages).role = "assistant"
          /\ Last(work.messages) = Last(log[cur])

\* C9 witness: the decision is about to be evaluated in a run that resumed a
\* thread with prior history.
C9_Witness == pc = "Deciding" /\ Len(h.prior) > 0

\* C10: when run has returned success=true, it returned from Terminal, the
\* last persisted message of the thread is an assistant message without tool
\* requests, and the response is that message's text.
C10_SuccessIsTerminal ==
    (pc = "idle" /\ runs > 0 /\ result.success) =>
        LET m == get_conversation_history(cur) IN
        /\ h.returned_from = "Terminal"
        /\ Len(m) > 0
        /\ Last(m).role = "assistant"
        /\ Len(Last(m).tool_calls) = 0
        /\ result.response = Last(m).content

\* C10 witness: a run returned success after one tool round, with the text
\* of its final reply.
C10_Witness ==
    /\ pc = "idle" /\ result.success /\ cycles = 1
    /\ result.response = <<"a2">>

\* C13: every call of run comes back with a boolean success flag (no step of
\* a run leaves it without a result), and whenever the flag is false the
\* response text is non-empty and contains the text of the fault.
C13_FailureExplained ==
    (pc = "idle" /\ runs > 0) =>
        /\ result.success \in BOOLEAN
        /\ h.returned_from \in {"Reasoning", "Terminal"}
        /\ result.success = ~h.aborted
        /\ ~result.success =>
              /\ ~Falsy(result.response)
              /\ \E i \in 1..Len(result.response) : result.response[i] = h.fault
              /\ result.error = h.fault

C13_Witness ==
    pc = "idle" /\ runs > 0 /\ ~result.success /\ h.fault \in Faults /\ cycles = 1

\* C14: the history accessor always answers; for a thread under which no
\* run was ever started the answer is the empty sequence, for a known thread
\* it is exactly the messages persisted for that thread, which between runs
\* are all the messages ever appended to it.
C14_HistoryAccessor ==
    (pc = "idle" /\ h.asked # None) =>
        /\ h.history = log[h.asked]
        /\ h.asked \in DOMAIN checkpoints => h.history = checkpoints[h.asked].messages
        /\ h.asked \notin DOMAIN checkpoints => h.history = <<>>

C14_Witness ==
    /\ pc = "idle" /\ runs = 2 /\ h.asked # None /\ h.asked # cur
    /\ Len(h.history) > 2 /\ h.history # result.state.messages

\* the code strings of the code-execution requests in a message sequence
RECURSIVE DispatchedCode(_)
DispatchedCode(ms) ==
    IF ms = <<>> THEN <<>>
    ELSE LET calls == SelectSeq(Head(ms).tool_calls,
                                LAMBDA c : c.name = "execute_pandas_code")
         IN [k \in 1..Len(calls) |-> calls[k].args.code] \o DispatchedCode(Tail(ms))

\* the messages appended by the run in progress (or the latest run)
RunMessages == SubSeq(log[cur], Len(h.prior) + 1, Len(log[cur]))

\* C16: after a run the generated-code log of the conversation state holds,
\* in execution order, every code string dispatched to the code-execution
\* tool during that run.
C16_CodeLogged ==
    (pc = "idle" /\ runs > 0 /\ result.success) =>
        LET ran == DispatchedCode(RunMessages)
            logged == result.state.generated_code
        IN /\ Len(ran) <= Len(logged)
           /\ SubSeq(logged, Len(logged) - Len(ran) + 1, Len(logged)) = ran

\* C17: at run entry the user message appended to the thread's history
\* contains the dataset locator when one is supplied, with the loaded flag
\* true and the locator stored as the active dataset; without a locator the
\* message is the unmodified input and the loaded flag is false.
C17_RunEntry ==
    (pc = "Reasoning" /\ h.planner_calls = 0) =>
        LET m == Last(checkpoints[cur].messages) IN
        /\ m.role = "user"
        /\ Len(checkpoints[cur].messages) = Len(h.prior) + 1
        /\ IF h.locator # None
           THEN /\ \E i \in 1..Len(m.content) : m.content[i] = h.locator
                /\ \E i \in 1..Len(m.content) : m.content[i] = h.user_input
                /\ checkpoints[cur].csv_loaded
                /\ checkpoints[cur].csv_file_path = h.locator
           ELSE /\ m.content = <<h.user_input>>
                /\ ~checkpoints[cur].csv_loaded

C17_Witness ==
    /\ pc = "Reasoning" /\ h.planner_calls = 0 /\ h.locator = "data.csv"
    /\ Len(h.prior) > 0

\* the planner replies in a message sequence that request tools
ToolReplies(ms) ==
    {i \in DOMAIN ms : ms[i].role = "assistant" /\ Len(ms[i].tool_calls) > 0}

C12_LimitNotEnforced ==
    [][(pc = "Deciding" /\ Len(NewestCalls) > 0) =>
          (pc' = "ToolExecution" /\ cycles' = cycles)]_vars

C12_Witness == cycles > MAX_ITERATIONS /\ pc = "idle" /\ result.success

\* the executors whose latest execute_code call has returned
Returned == {e \in Threads : executors[e].state = "ready" /\ executors[e].call > 0}

\* C15: runs under different thread identifiers share no mutable state: what
\* a run on one thread gets back from its tools, and so persists, holds
\* nothing that a run on another thread produced.
C15_ThreadsIndependent ==
    \A e \in Returned :
        \A i \in DOMAIN executors[e].result.output :
            executors[e].result.output[i][1] = e

\* C18: for every snippet that raises, malformed or faulting at run time,
\* execute_code returns success=false with a non-empty error text.
C18_FaultReported ==
    \A e \in Returned :
        executors[e].raised =>
            /\ ~executors[e].result.success
            /\ ~Falsy(executors[e].result.error)

\* C19: when a snippet prints and then raises, the output of the result is
\* exactly the text printed before the fault, and none of it has been
\* written to the real process streams.
C19_PartialOutput ==
    \A e \in Returned :
        executors[e].code = "print_raise" =>
            /\ executors[e].result.output = Pieces(e, <<"p">>)
            /\ \A i \in DOMAIN terminal.out : terminal.out[i][1] # e

\* C20: at the start of every execute_code call, whatever the earlier
\* snippets on the executor did, original_df is bound to a table equal in
\* value to the table the executor was constructed from.
C20_OriginalPreserved ==
    \A e \in Threads :
        executors[e].state = "entered" =>
            heap[executors[e].original_df] = executors[e].given

\* C21: the table the caller supplies to the executor is never changed:
\* whatever snippets have run, in-place changes of df or original_df
\* included, it equals its value at construction.
C21_CallerTableUntouched ==
    \A e \in Threads :
        executors[e].state # "absent" =>
            /\ heap[executors[e].dataframe] = executors[e].given
            /\ executors[e].dataframe \notin {executors[e].df, executors[e].original_df}

C21_Witness ==
    /\ executors["t1"].state = "ready" /\ executors["t1"].call = 2
    /\ executors["t1"].code = "mutate_original" /\ ~executors["t1"].raised
    /\ heap[executors["t1"].df] # executors["t1"].given
    /\ heap[executors["t1"].original_df] # executors["t1"].given

\* C22: for every fault-free snippet that reassigns df to a modified table,
\* the table of the result equals exactly that modified table, it is the
\* executor's new working table, and original_df is unchanged by the call.
C22_ReassignReturned ==
    \A e \in Returned :
        (executors[e].code = "reassign" /\ ~executors[e].raised) =>
            LET modified == Table(executors[e].entry.df.value + 1) IN
            /\ executors[e].result.success
            /\ executors[e].result.dataframe # 0
            /\ ~executors[e].touched =>
                  heap[executors[e].result.dataframe] = modified
            /\ heap[executors[e].df] = modified
            /\ heap[executors[e].original_df] = executors[e].entry.original_df

C22_Witness ==
    /\ "t1" \in Returned /\ executors["t1"].code = "reassign"
    /\ ~executors["t1"].raised /\ executors["t1"].entry.df.value > 0
    /\ ~executors["t1"].touched

\* C24: the table in a result is a copy distinct from the executor's
\* working table: no later step of the executor changes a table an earlier
\* call returned, and the caller changing a returned table changes neither
\* the working table nor the original.
C24_ResultIsCopy ==
    [][\A e \in Threads :
          /\ ~CallerMutates(e) =>
                \A r \in executors[e].held : heap'[r] = heap[r]
          /\ CallerMutates(e) =>
                /\ heap'[executors[e].df] = heap[executors[e].df]
                /\ heap'[executors[e].original_df] = heap[executors[e].original_df]]_vars

C24_Witness ==
    /\ executors["t1"].touched /\ Cardinality(executors["t1"].held) = 2
    /\ executors["t1"].code = "mutate"

\* C23: for every fault-free snippet that only reads the working table,
\* execute_code returns success=true, an output that is exactly what the
\* snippet printed, and a result table equal in value to the input table.
C23_ReadOnly ==
    \A e \in Returned :
        (executors[e].code = "print" /\ executors[e].entry.df.kind = "table") =>
            /\ executors[e].result.success
            /\ executors[e].result.output = Pieces(e, <<"p">>)
            /\ executors[e].result.dataframe # 0
            /\ ~executors[e].touched =>
                  heap[executors[e].result.dataframe] = executors[e].entry.df

\* C25: the namespace built by execute_code binds the working table, the
\* original table and the whitelisted primitives and nothing else, so that
\* no snippet reaches the filesystem, the network, a process or an import.
C25_NamespaceConfined ==
    /\ \A e \in Threads : executors[e].reached = {}
    /\ (\E e \in Threads : executors[e].state = "entered") =>
          safe_globals \subseteq {"df", "original_df", "__builtins__"}

\* C26: every dispatch starts from the dataset as it was: the table an
\* executor is constructed from shows nothing of what the snippets of
\* earlier dispatches did to their working tables.
C26_FreshLoad ==
    \A e \in Threads :
        executors[e].state # "absent" => executors[e].given = LoadedTable

----------------------------------------------------------------------------
(* The tools and the constructors called on their own *)

\* the call in progress was given a locator that does not lead to a table
BadLocator == io.op \in ToolNames /\ io.path \notin Files

\* C27: execute_pandas_code, get_dataframe_info and suggest_analysis_steps,
\* given an empty, missing, unreadable or malformed dataset locator, return
\* a structured error that carries an error text; with an empty locator no
\* load is attempted.
C27_BadLocatorReported ==
    /\ (BadLocator /\ ~Truthy(io.path)) => io.loads = 0
    /\ (BadLocator /\ io.stage = "returned") =>
          /\ io.returned[1] \in {"success=False", "error"}
          /\ io.error # <<>>
          /\ \A i \in 1..Len(io.error) : io.error[i] # ""
          /\ io.info = NoInfo /\ io.suggestions = <<>>

C27_Witness ==
    /\ io.op = "suggest_analysis_steps" /\ io.stage = "returned"
    /\ io.path = "malformed.csv" /\ io.loads > 0
    /\ io.error = <<"Failed to load CSV file", "Error tokenizing data">>

\* the keyword groups a question matches, in the order of the groups
RECURSIVE MatchedFrom(_, _)
MatchedFrom(k, question) ==
    IF k > Len(KeywordGroups) THEN <<>>
    ELSE (IF \E i \in 1..Len(question) :
               Within(Lower(question[i])) \cap KeywordGroups[k].words # {}
          THEN <<KeywordGroups[k].step>> ELSE <<>>)
         \o MatchedFrom(k + 1, question)

\* the headings of a list of suggestions
Headings(list) == [i \in 1..Len(list) |-> list[i].step]

\* the headings the suggestions for a table and a question are to have
ExpectedHeadings(table, question) ==
    <<"1. Data Overview", "2. Data Quality", "3. Statistical Summary">>
    \o (IF \E i \in 1..Len(table.columns) : table.columns[i].dtype = "number"
        THEN <<"4. Numeric Analysis">> ELSE <<>>)
    \o (IF \E i \in 1..Len(table.columns) : table.columns[i].dtype # "number"
        THEN <<"5. Categorical Analysis">> ELSE <<>>)
    \o MatchedFrom(1, question)

\* C28: on a loadable dataset suggest_analysis_steps returns the three
\* general steps, then a numeric step exactly when the table has a numeric
\* column, then a categorical step exactly when it has a non-numeric column,
\* then one topic suggestion per keyword group the lower-cased question
\* matches, in the order correlation, time, group, outlier, distribution.
C28_Suggestions ==
    (io.op = "suggest_analysis_steps" /\ io.stage = "returned" /\ io.path \in Files) =>
        /\ io.returned[1] = "success=True"
        /\ Headings(io.suggestions) = ExpectedHeadings(io.table, io.question)

C30_NoCredentialNoAgent ==
    (io.op \in Variants /\ io.stage = "returned" /\ ~Truthy(io.key)) =>
        /\ ~io.agent.exists
        /\ io.agent.error # None
        /\ io.agent.at = "construction"

----------------------------------------------------------------------------
(* The executor: what a call leaves behind *)

\* C34: whenever execute_code returns success=true the error text of the
\* result is empty, also when the snippet wrote to standard error without
\* raising.
C34_SuccessNoErrorText ==
    \A e \in Returned :
        executors[e].result.success => Falsy(executors[e].result.error)

\* C35: whenever execute_code returns success=false the executor's working
\* table (self.df) equals its value before the call, also when the snippet
\* raised after changing df in place and when it bound df to a value that
\* is not a table.
C35_FaultKeepsWorkingTable ==
    \A e \in Returned :
        (executors[e].code # None /\ ~executors[e].result.success) =>
            heap[executors[e].df] = executors[e].entry.df

----------------------------------------------------------------------------
(* The run and the persisted state of its thread *)

\* C32: whenever run has returned, with success true or false, the state
\* in its result equals the state persisted for the thread, and the
\* messages of that state are what get_conversation_history returns.
C32_ReturnedIsPersisted ==
    (pc = "idle" /\ runs > 0) =>
        /\ result.state = checkpoints[cur]
        /\ result.state.messages = get_conversation_history(cur)

\* C33: the last-error field of the conversation state is None in every
\* state: in the input a run builds, in the channel values of the run in
\* progress, in every persisted state and in the state a run returns; so
\* the system context the planner is given never has an error section.
C33_ErrorAlwaysEmpty ==
    /\ initial_state.error = None
    /\ work.error = None
    /\ result.state.error = None
    /\ \A t \in DOMAIN checkpoints : checkpoints[t].error = None
    /\ pc = "Reasoning" =>
          \A i \in 1..Len(SystemContext(work)) :
              SystemContext(work)[i] # "Previous error: "

C33_Witness ==
    /\ pc = "Reasoning" /\ cycles > 0 /\ Len(h.prior) > 0
    /\ ReportsFailure(Last(work.messages))
    /\ Len(SystemContext(work)) > 1

\* C36: in every persisted state the loaded flag is true exactly when the
\* dataset locator is non-empty, and both are those of the latest run call
\* on the thread: a run without a locator leaves the thread without a
\* dataset, whatever an earlier run gave, while the earlier messages stay.
C36_DatasetOfLatestRun ==
    /\ \A t \in DOMAIN checkpoints :
          checkpoints[t].csv_loaded <=> Truthy(checkpoints[t].csv_file_path)
    /\ runs > 0 =>
          /\ checkpoints[cur].csv_file_path = h.locator
          /\ checkpoints[cur].csv_loaded = Truthy(h.locator)
          /\ IsPrefix(h.prior, checkpoints[cur].messages)

C36_Witness ==
    /\ pc = "idle" /\ result.success /\ h.locator = None
    /\ Len(h.prior) > 0 /\ h.prior[1].content[1] = "I have a CSV file at "
    /\ ~checkpoints[cur].csv_loaded

\* the user messages among a sequence of messages
UserMessages(ms) == SelectSeq(ms, LAMBDA m : m.role = "user")

\* the messages a step has added to a sequence
Appended(old, new) == SubSeq(new, Len(old) + 1, Len(new))

\* the messages persisted for a thread, none if it has no checkpoint
Persisted(t) == IF t \in DOMAIN checkpoints THEN checkpoints[t].messages ELSE <<>>

\* C37: a call of run appends exactly one user message to the history of
\* its thread, before any planner invocation of the run; after that a
\* planner invocation appends at most its reply, and the steps between two
\* planner invocations append tool-result messages only; no other step
\* adds a user message to any thread.
C37_OneUserMessagePerRun ==
    [][IF runs' # runs
       THEN /\ work'.messages = Persisted(cur') \o Appended(Persisted(cur'), work'.messages)
            /\ Len(work'.messages) = Len(Persisted(cur')) + 1
            /\ Last(work'.messages).role = "user"
            /\ checkpoints'[cur'].messages = work'.messages
            /\ h'.planner_calls = 0
            /\ invoked' = invoked
       ELSE /\ IsPrefix(work.messages, work'.messages)
            /\ LET added == Appended(work.messages, work'.messages) IN
               IF invoked' # invoked
               THEN /\ Len(added) <= 1
                    /\ \A i \in 1..Len(added) : added[i].role = "assistant"
               ELSE \A i \in 1..Len(added) : added[i].role = "tool-result"
            /\ \A t \in DOMAIN checkpoints' :
                  Len(UserMessages(checkpoints'[t].messages))
                      = Len(UserMessages(Persisted(t)))]_vars

C37_Witness ==
    /\ pc = "Deciding" /\ h.planner_calls = 2 /\ cycles = 1
    /\ Len(h.prior) > 0
    /\ Len(UserMessages(work.messages)) = 2
    /\ Last(work.messages).role = "assistant"
    /\ work.messages[Len(work.messages) - 1].role = "tool-result"

----------------------------------------------------------------------------
(* The interactive mode *)

\* C31: in the interactive mode, the first query after a clear runs under
\* a thread identifier that no earlier query of the session has used, and
\* the planner is given the new question alone.
C31_ClearStartsFresh ==
    session.last.after_clear =>
        /\ ~session.last.reused
        /\ Len(session.last.seen) = 1

====
